---- MODULE Spec2Model ----
(***************************************************************************)
(* Authentication-token lifecycle (pkg/jwt Manager, user service           *)
(* RefreshToken / Logout, AuthMiddleware) and the SMS verification-code    *)
(* client (volcengine Client.Send / Client.Verify over the Redis           *)
(* CacheRepository) of the arch3 backend.                                  *)
(*                                                                         *)
(* Time is in seconds.  A Redis key written at time t with TTL d is        *)
(* readable while now < t + d.  Every Redis command is one atomic step;    *)
(* the steps of concurrent requests interleave.  A Redis or database call  *)
(* may fail (connection error): the command then has no effect and the     *)
(* caller sees an error.  The clock advances between requests.             *)
(***************************************************************************)
EXTENDS Integers, Sequences, FiniteSets, TLC

VARIABLES
    now,      \* wall clock, seconds
    ticks,    \* number of clock advances so far
    faults,   \* number of failed Redis / database calls so far
    cache,    \* Redis: key -> [val, hasTTL, exp]
    mgr,      \* jwt.Manager: accessExpire, refreshExpire (seconds)
    authOn,   \* AuthMiddleware.enabled
    nextJti,  \* source of fresh token ids (uuid.New)
    issued,   \* every signed token handed out so far
    tp,       \* per request worker: the token request it is serving
    rotations,\* history: refresh jti -> RefreshToken calls that returned a pair
    revoked,  \* history: jtis for which a blacklist write was executed
    reqs,     \* number of requests accepted so far
    lim,      \* the bounds of the run: workers, requests, clock advances, faults
    sp,       \* per request worker: the SMS request it is serving
    origin,   \* history: (type, phone) -> the Send request that last stored a code, the
              \*          code, the gateway's outcome for it, verified since or not
    sendLog,  \* history: (type, phone) -> times of the successful sends of the last day
    streak,   \* history: (type, phone) -> consecutive wrong verifications since the last
              \*          successful send (up to 5), the time of the last of them, and
              \*          whether the stored code itself was tried after the fifth
    cleared,  \* history: (type, phone) -> a send succeeded and no verification came since
              \*          ("unlocked": the send followed such a try)
    v2,       \* archv2: the mock client's fields and the last call on either client
    twin      \* two runs side by side: their caches, the candidates tried in both,
              \*          and the outcomes each run returned

tokenVars == <<mgr, authOn, nextJti, issued, tp, rotations, revoked>>
smsVars == <<sp, origin, sendLog, streak, cleared, twin, v2>>
vars == <<now, ticks, faults, cache, reqs, lim, tokenVars, smsVars>>

----------------------------------------------------------------------------
(* Bounds of the model *)

\* token endpoints: clock advances, failed calls, requests
MaxTicks == 1
MaxFaults == 2
MaxReqs == 3

\* Send and Verify by concurrent callers: requests, clock advances, failed calls
SMSReqs == 3
SMSTicks == 1
SMSFaults == 1

\* Send and Verify by one caller: clock advances, failed calls
SeqTicks == 1
SeqFaults == 1

\* Send by one caller over a day: clock advances, failed calls
DayTicks == 6
DayFaults == 1

\* Send by two callers at a time: requests, clock advances, failed calls
PairReqs == 2
PairTicks == 1
PairFaults == 1

\* token pairs under any configuration: calls, clock advances
MintReqs == 2
MintTicks == 1

\* Verify by two callers at a time: requests, clock advances
RaceReqs == 3
RaceTicks == 1

\* SMSLogin by one caller: requests, clock advances
LoginReqs == 3
LoginTicks == 1

\* archv2 clients: calls, clock advances, failed cache operations
V2Calls == 3
V2Ticks == 1
V2Faults == 1

\* two runs side by side: Verify calls, clock advances
TwinCalls == 6
TwinTicks == 1

TProcs == {"w1", "w2"}

None == "none"

----------------------------------------------------------------------------
(* Redis *)

NoEntry == [val |-> None, hasTTL |-> FALSE, exp |-> 0]

\* a key is readable while it is present and not past its expiry
Live(c, k, t) == k \in DOMAIN c /\ (c[k].hasTTL => t < c[k].exp)

\* GET: a value, redis.Nil for an absent key, or an I/O error
RGet(c, k, t, fail) ==
    IF fail THEN [err |-> "io", val |-> None]
    ELSE IF Live(c, k, t) THEN [err |-> "", val |-> c[k].val]
    ELSE [err |-> "nil", val |-> None]

\* SET key value EX ttl (ttl = 0: no expiry)
RSet(c, k, v, ttl, t) ==
    (k :> [val |-> v, hasTTL |-> ttl > 0, exp |-> IF ttl > 0 THEN t + ttl ELSE 0]) @@ c

\* DEL key
RDel(c, k) == [x \in DOMAIN c \ {k} |-> c[x]]

\* keys past their expiry are dropped by the store
Purge(c, t) == [x \in {k \in DOMAIN c : Live(c, k, t)} |-> c[x]]

----------------------------------------------------------------------------
(* pkg/jwt *)

TokenTypeAccess == "access"
TokenTypeRefresh == "refresh"

DefaultAccessTokenDuration == 15 * 60
DefaultRefreshTokenDuration == 7 * 24 * 3600

Secret == "secret"

\* jwt.expire / jwt.refresh_expire of the loaded configuration, in minutes
JWTConfigs ==
    { [AccessExpire |-> 0, RefreshExpire |-> 168] }

\* initJWT: minutes -> time.Duration
InitJWT(cfg) ==
    [AccessExpire |-> cfg.AccessExpire * 60, RefreshExpire |-> cfg.RefreshExpire * 60]

NewManager(cfg) ==
    [accessExpire |-> IF cfg.AccessExpire > 0 THEN cfg.AccessExpire
                      ELSE DefaultAccessTokenDuration,
     refreshExpire |-> IF cfg.RefreshExpire > 0 THEN cfg.RefreshExpire
                       ELSE DefaultRefreshTokenDuration]

JtiOf(n) == "jti" \o ToString(n)

SignedToken(uid, typ, jti, t, life) ==
    [alg |-> "HS256", key |-> Secret, uid |-> uid, typ |-> typ, jti |-> jti,
     iat |-> t, exp |-> t + life]

\* variant: both tokens of a pair carry the same id
GenerateTokenPair_OneId(m, uid, n, t) ==
    [access |-> SignedToken(uid, TokenTypeAccess, JtiOf(n), t, m.accessExpire),
     refresh |-> SignedToken(uid, TokenTypeRefresh, JtiOf(n), t, m.refreshExpire)]

\* GenerateTokenPair: two fresh ids, issued-at = now, nothing stored
GenerateTokenPair(m, uid, n, t) ==
    [access |-> SignedToken(uid, TokenTypeAccess, JtiOf(n), t, m.accessExpire),
     refresh |-> SignedToken(uid, TokenTypeRefresh, JtiOf(n + 1), t, m.refreshExpire)]

HMACAlgs == {"HS256", "HS384", "HS512"}

\* variant: the kind of the token is not looked at
ParseToken_AnyKind(tok, expectedType, t) ==
    IF tok.alg \notin HMACAlgs THEN "malformed"
    ELSE IF tok.key # Secret THEN "malformed"
    ELSE IF ~(t < tok.exp) THEN "expired"
    ELSE "ok"

\* ParseToken: key function accepts the HMAC family, the signature must verify
\* under the manager's secret, exp must lie in the future, the kind must match
ParseToken(tok, expectedType, t) ==
    IF tok.alg \notin HMACAlgs THEN "malformed"
    ELSE IF tok.key # Secret THEN "malformed"
    ELSE IF ~(t < tok.exp) THEN "expired"
    ELSE IF tok.typ # expectedType THEN "wrongkind"
    ELSE "ok"

BlacklistKey(jti) == [ns |-> "token:blacklist", a |-> jti, b |-> ""]

\* variant: any failed read is reported as "not blacklisted"
IsTokenBlacklisted_Swallow(c, jti, t, fail) ==
    LET r == RGet(c, BlacklistKey(jti), t, fail) IN
    [blacklisted |-> (r.err = "" /\ r.val = "1"), err |-> FALSE]

\* variant: no id is ever reported as blacklisted
IsTokenBlacklisted_Never(c, jti, t, fail) == [blacklisted |-> FALSE, err |-> fail]

\* IsTokenBlacklisted: (bool, error)
IsTokenBlacklisted(c, jti, t, fail) ==
    LET r == RGet(c, BlacklistKey(jti), t, fail) IN
    IF r.err = "nil" THEN [blacklisted |-> FALSE, err |-> FALSE]
    ELSE IF r.err # "" THEN [blacklisted |-> FALSE, err |-> TRUE]
    ELSE [blacklisted |-> (r.val = "1"), err |-> FALSE]

\* variant: every entry is written for one minute
AddTokenToBlacklist_OneMinute(c, jti, expiration, t) ==
    RSet(c, BlacklistKey(jti), "1", 60, t)

\* variant: the write is acknowledged but nothing is stored
AddTokenToBlacklist_NotStored(c, jti, expiration, t) == c

AddTokenToBlacklist(c, jti, expiration, t) ==
    RSet(c, BlacklistKey(jti), "1", expiration, t)

\* variant: the rotated refresh id is blacklisted for the access lifetime only
RevokeRefreshToken_AccessTTL(c, m, jti, t) ==
    AddTokenToBlacklist(c, jti, m.accessExpire, t)

RevokeRefreshToken(c, m, jti, t) ==
    AddTokenToBlacklist(c, jti, m.refreshExpire, t)

----------------------------------------------------------------------------
(* SMS verification codes: the volcengine client over the Redis repository *)

codeLength == 6
codeTTL == 5 * 60
maxPerMin == 1
maxPerDay == 6
maxVerifyFails == 5
verifyFailTTL == 1 * 3600
MinuteTTL == 60
DayTTL == 24 * 3600

\* the purposes the configuration maps to a template id
Templates == {"login", "register", "forget"}

\* the purposes and phone numbers that requests of the model name
SMSTypes == {"login", "register"}
Phones == {"13800000000"}
SMSKeys == SMSTypes \X Phones
SProcs == {"s1", "s2"}

\* rand.Int(rand.Reader, 1000000): two of the million outcomes
CodeNumbers == {482913, 0}

RECURSIVE ZeroPad(_, _)
ZeroPad(str, width) == IF Len(str) >= width THEN str ELSE ZeroPad("0" \o str, width)

\* generateCode: fmt.Sprintf("%06d", n)
generateCode(n) == ZeroPad(ToString(n), codeLength)

Candidates == { generateCode(n) : n \in CodeNumbers }

\* INCR: an absent key counts from 0 and gets no expiry
RIncr(c, k, t) ==
    IF Live(c, k, t) THEN [c EXCEPT ![k].val = @ + 1]
    ELSE (k :> [val |-> 1, hasTTL |-> FALSE, exp |-> 0]) @@ c

\* EXPIRE: (re)starts the key's time to live
RExpire(c, k, ttl, t) ==
    IF Live(c, k, t) THEN [c EXCEPT ![k].hasTTL = TRUE, ![k].exp = t + ttl] ELSE c

\* GET key, read as an integer
RGetInt(c, k, t, fail) ==
    LET r == RGet(c, k, t, fail) IN
    [err |-> r.err, n |-> IF r.err = "" THEN r.val ELSE 0]

\* variant: the code key leaves the purpose out
codeKey_PhoneOnly(typ, phone) == [ns |-> "sms:code", a |-> "", b |-> phone]

\* variant: every purpose shares the key of login
codeKey_LoginForAll(typ, phone) == [ns |-> "sms:code", a |-> "login", b |-> phone]

codeKey(typ, phone) == [ns |-> "sms:code", a |-> typ, b |-> phone]
minuteKey(typ, phone) == [ns |-> "sms:minute", a |-> typ, b |-> phone]
dayKey(typ, phone) == [ns |-> "sms:day", a |-> typ, b |-> phone]
verifyFailKey(typ, phone) == [ns |-> "sms:verify_fail", a |-> typ, b |-> phone]

StoreCode(c, typ, phone, code, ttl, t) == RSet(c, codeKey(typ, phone), code, ttl, t)

\* variant: redis.Nil is read as an empty code, without error
GetCode_NilAsEmpty(c, typ, phone, t, fail) ==
    LET r == RGet(c, codeKey(typ, phone), t, fail) IN
    IF r.err = "nil" THEN [code |-> "", err |-> ""]
    ELSE IF r.err # "" THEN [code |-> "", err |-> r.err]
    ELSE [code |-> r.val, err |-> ""]

\* GetCode: redis.Nil becomes ErrCodeInvalid, other errors pass through
GetCode(c, typ, phone, t, fail) ==
    LET r == RGet(c, codeKey(typ, phone), t, fail) IN
    IF r.err = "nil" THEN [code |-> "", err |-> "CodeInvalid"]
    ELSE IF r.err # "" THEN [code |-> "", err |-> r.err]
    ELSE [code |-> r.val, err |-> ""]

\* variant: the delete leaves the code in place
DeleteCode_Keep(c, typ, phone) == c

DeleteCode(c, typ, phone) == RDel(c, codeKey(typ, phone))

\* GetSendCount, first and second read: redis.Nil counts as 0
GetMinuteCount(c, typ, phone, t, fail) ==
    LET r == RGetInt(c, minuteKey(typ, phone), t, fail) IN
    [n |-> r.n, err |-> r.err \notin {"", "nil"}]

GetDayCount(c, typ, phone, t, fail) ==
    LET r == RGetInt(c, dayKey(typ, phone), t, fail) IN
    [n |-> r.n, err |-> r.err \notin {"", "nil"}]

\* variant: only the minute counter is written
IncrSendCount_MinuteOnly(c, typ, phone, t, applied) ==
    LET c1 == IF applied >= 1 THEN RIncr(c, minuteKey(typ, phone), t) ELSE c
    IN  IF applied >= 2 THEN RExpire(c1, minuteKey(typ, phone), MinuteTTL, t) ELSE c1

\* IncrSendCount: INCR minute, EXPIRE minute, INCR day, EXPIRE day in one
\* pipeline; `applied` of the four commands took effect (4: no error)
\* variant: the minute counter is written as 1 instead of incremented
IncrSendCount_SetOne(c, typ, phone, t, applied) ==
    LET one == [val |-> 1, hasTTL |-> FALSE, exp |-> 0]
        c1 == IF applied >= 1 THEN (minuteKey(typ, phone) :> one) @@ c ELSE c
        c2 == IF applied >= 2 THEN RExpire(c1, minuteKey(typ, phone), MinuteTTL, t) ELSE c1
        c3 == IF applied >= 3 THEN RIncr(c2, dayKey(typ, phone), t) ELSE c2
    IN  IF applied >= 4 THEN RExpire(c3, dayKey(typ, phone), DayTTL, t) ELSE c3

IncrSendCount(c, typ, phone, t, applied) ==
    LET c1 == IF applied >= 1 THEN RIncr(c, minuteKey(typ, phone), t) ELSE c
        c2 == IF applied >= 2 THEN RExpire(c1, minuteKey(typ, phone), MinuteTTL, t) ELSE c1
        c3 == IF applied >= 3 THEN RIncr(c2, dayKey(typ, phone), t) ELSE c2
    IN  IF applied >= 4 THEN RExpire(c3, dayKey(typ, phone), DayTTL, t) ELSE c3

\* variant: the fail counter always reads 0
GetVerifyFailCount_Zero(c, typ, phone, t, fail) == [n |-> 0, err |-> fail]

GetVerifyFailCount(c, typ, phone, t, fail) ==
    LET r == RGetInt(c, verifyFailKey(typ, phone), t, fail) IN
    IF r.err = "nil" THEN [n |-> 0, err |-> FALSE]
    ELSE [n |-> r.n, err |-> r.err # ""]

\* IncrVerifyFailCount: INCR, EXPIRE in one pipeline (2: no error)
\* variant: the counter is set to 1 instead of incremented
IncrVerifyFailCount_SetOne(c, typ, phone, t, applied) ==
    LET k == verifyFailKey(typ, phone)
        c1 == IF applied >= 1 THEN (k :> [val |-> 1, hasTTL |-> FALSE, exp |-> 0]) @@ c ELSE c
    IN  IF applied >= 2 THEN RExpire(c1, k, verifyFailTTL, t) ELSE c1

\* variant: INCR without the EXPIRE
IncrVerifyFailCount_NoExpire(c, typ, phone, t, applied) ==
    IF applied >= 1 THEN RIncr(c, verifyFailKey(typ, phone), t) ELSE c

IncrVerifyFailCount(c, typ, phone, t, applied) ==
    LET c1 == IF applied >= 1 THEN RIncr(c, verifyFailKey(typ, phone), t) ELSE c
    IN  IF applied >= 2 THEN RExpire(c1, verifyFailKey(typ, phone), verifyFailTTL, t) ELSE c1

ResetVerifyFailCount(c, typ, phone) == RDel(c, verifyFailKey(typ, phone))

\* variant: only the daily limit is enforced
checkSendLimit_DayOnly(minuteCount, dayCount) ==
    IF dayCount >= maxPerDay THEN "DailyLimit" ELSE ""

\* variant: the two verdicts are exchanged
checkSendLimit_Swapped(minuteCount, dayCount) ==
    IF minuteCount >= maxPerMin THEN "DailyLimit"
    ELSE IF dayCount >= maxPerDay THEN "TooFrequent"
    ELSE ""

\* checkSendLimit, after the counters were read
checkSendLimit(minuteCount, dayCount) ==
    IF minuteCount >= maxPerMin THEN "TooFrequent"
    ELSE IF dayCount >= maxPerDay THEN "DailyLimit"
    ELSE ""

\* Client.Verify by a single caller with a working cache, start to end
VerifyCall(c, typ, phone, cand, t) ==
    LET f == GetVerifyFailCount(c, typ, phone, t, FALSE)
        g == GetCode(c, typ, phone, t, FALSE)
    IN  IF f.n >= maxVerifyFails THEN [cache |-> c, res |-> "VerifyTooMany"]
        ELSE IF g.err # "" THEN [cache |-> c, res |-> "CodeInvalid"]
        ELSE IF g.code # cand
             THEN [cache |-> IncrVerifyFailCount(c, typ, phone, t, 2), res |-> "CodeInvalid"]
        ELSE [cache |-> ResetVerifyFailCount(DeleteCode(c, typ, phone), typ, phone),
              res |-> "OK"]

\* Client.Send by a single caller with a working cache, start to end
SendCall(c, typ, phone, n, delivered, t) ==
    LET m == GetMinuteCount(c, typ, phone, t, FALSE)
        d == GetDayCount(c, typ, phone, t, FALSE)
        verdict == checkSendLimit(m.n, d.n)
        stored == StoreCode(c, typ, phone, generateCode(n), codeTTL, t)
    IN  IF typ \notin Templates THEN [cache |-> c, res |-> "TemplateNotFound"]
        ELSE IF verdict # "" THEN [cache |-> c, res |-> verdict]
        ELSE IF ~delivered
             THEN [cache |-> DeleteCode(stored, typ, phone), res |-> "SendFailed"]
        ELSE [cache |-> ResetVerifyFailCount(IncrSendCount(stored, typ, phone, t, 4),
                                             typ, phone),
              res |-> "OK"]

\* the code Redis holds for (typ, phone) at time t, whoever asks
StoredCodeIn(c, typ, phone, t) ==
    LET k == [ns |-> "sms:code", a |-> typ, b |-> phone] IN
    IF Live(c, k, t) THEN c[k].val ELSE None

\* the failure count Redis holds for (typ, phone) at time t
StoredFailsIn(c, typ, phone, t) ==
    LET k == [ns |-> "sms:verify_fail", a |-> typ, b |-> phone] IN
    IF Live(c, k, t) THEN c[k].val ELSE 0

\* the send counts Redis holds for (typ, phone) at time t
StoredMinuteIn(c, typ, phone, t) ==
    LET k == [ns |-> "sms:minute", a |-> typ, b |-> phone] IN
    IF Live(c, k, t) THEN c[k].val ELSE 0

StoredDayIn(c, typ, phone, t) ==
    LET k == [ns |-> "sms:day", a |-> typ, b |-> phone] IN
    IF Live(c, k, t) THEN c[k].val ELSE 0

\* the entries of a log of times that are less than w old at time t
Recent(log, t, w) == SelectSeq(log, LAMBDA x : t < x + w)

NoOrigin == [sid |-> 0, code |-> None, st |-> None, verified |-> FALSE]

NoStreak == [n |-> 0, at |-> 0, hit |-> FALSE]

SIdle ==
    [op |-> None, pc |-> "idle", typ |-> "", phone |-> "", cand |-> "", code |-> "",
     sid |-> 0, t0 |-> 0, res |-> None, minute |-> 0,
     recent |-> FALSE, dayN |-> 0,
     failErr |-> FALSE, gFail |-> 0, live0 |-> None, gCode |-> "unread", gOrigin |-> 0,
     usedBefore |-> FALSE, streak0 |-> NoStreak, cleared0 |-> "no"]

----------------------------------------------------------------------------
(* Requests in flight *)

Users == {"u1"}

TIdle ==
    [op |-> None, pc |-> "idle", jti |-> "", jti2 |-> "", uid |-> "", res |-> None,
     minted |-> FALSE, prior |-> FALSE, valid |-> FALSE, userOK |-> FALSE,
     wrote |-> FALSE, blAtMint |-> FALSE, checkErr |-> FALSE, revErr |-> FALSE,
     faulted |-> FALSE,
     examined |-> FALSE, accepted |-> FALSE,
     tokAlg |-> "", tokKey |-> "", tokTyp |-> "", tokLive |-> FALSE,
     tokExp |-> 0, blExp |-> 0,
     guarded |-> FALSE, revokedBefore |-> FALSE,
     phone |-> "", cand |-> "", matched |-> FALSE, created |-> FALSE]

\* when the blacklist entry of id jti in cache c expires (0: no such entry)
BlacklistExpiryIn(c, jti) ==
    LET k == [ns |-> "token:blacklist", a |-> jti, b |-> ""] IN
    IF k \in DOMAIN c /\ c[k].hasTTL THEN c[k].exp ELSE 0

\* the request examines the token of its cookie: what the token is, and
\* whether ParseToken returned claims for it
Examine(h, tok, expectedType) ==
    [h EXCEPT !.examined = TRUE,
              !.accepted = ParseToken(tok, expectedType, now) = "ok",
              !.tokAlg = tok.alg, !.tokKey = tok.key, !.tokTyp = tok.typ,
              !.tokLive = now < tok.exp, !.tokExp = tok.exp]

\* what can arrive in a cookie: a token this service issued, or the claims of
\* one under another header algorithm, signed with the shared secret (by a
\* party that holds it) or with a key of the sender's own
Presentable ==
    issued \cup
    { [tk EXCEPT !.alg = h[1], !.key = h[2]] :
        tk \in issued,
        h \in {<<"HS384", Secret>>, <<"HS256", "forged">>, <<"none", "forged">>} }

Fail(ok) == /\ (~ok => faults < lim.faults)
            /\ faults' = IF ok THEN faults ELSE faults + 1

NoTwin == [a |-> << >>, b |-> << >>, tried |-> << >>, outA |-> << >>, outB |-> << >>]

\* archv2: no call made yet on either client
NoCall == [client |-> None, op |-> None, typ |-> "", phone |-> "", code |-> "",
           res |-> None, before |-> None, after |-> None, same |-> TRUE,
           injected |-> FALSE, delFailed |-> FALSE]

\* NewMockClient: no codes, no injected errors
NoV2 == [use |-> None, codes |-> << >>, sendErr |-> FALSE, verifyErr |-> FALSE,
         last |-> NoCall]

\* everything but the manager's configuration
InitBase ==
    /\ now = 0
    /\ ticks = 0
    /\ faults = 0
    /\ reqs = 0
    /\ cache = << >>
    /\ nextJti = 1
    /\ issued = {}
    /\ tp = [p \in TProcs |-> TIdle]
    /\ rotations = << >>
    /\ revoked = {}
    /\ sp = [p \in SProcs |-> SIdle]
    /\ origin = [k \in SMSKeys |-> NoOrigin]
    /\ sendLog = [k \in SMSKeys |-> << >>]
    /\ streak = [k \in SMSKeys |-> NoStreak]
    /\ cleared = [k \in SMSKeys |-> "no"]

InitCommon ==
    /\ InitBase
    /\ mgr \in { NewManager(InitJWT(cfg)) : cfg \in JWTConfigs }

\* the token endpoints, two requests at a time
Init ==
    /\ InitCommon
    /\ authOn \in BOOLEAN
    /\ twin = NoTwin
    /\ v2 = NoV2
    /\ lim = [procs |-> TProcs, reqs |-> MaxReqs, ticks |-> MaxTicks, faults |-> MaxFaults,
              types |-> {}, vtypes |-> {}, codes |-> {}, steps |-> {}]

\* SMSLogin, after verification: GenerateTokenPair for the user
IssuePair(uid) ==
    /\ reqs < lim.reqs
    /\ reqs' = reqs + 1
    /\ issued' = issued \cup
          { GenerateTokenPair(mgr, uid, nextJti, now).access,
            GenerateTokenPair(mgr, uid, nextJti, now).refresh }
    /\ nextJti' = nextJti + 2
    /\ UNCHANGED <<now, ticks, faults, cache, mgr, authOn, tp, rotations, revoked>>
    /\ UNCHANGED <<lim, smsVars>>

Count(f, k) == IF k \in DOMAIN f THEN f[k] ELSE 0

\* a refresh token this service signed and that has not yet expired
ValidRefresh(tok) == tok \in issued /\ tok.typ = TokenTypeRefresh /\ now < tok.exp

\* RefreshToken, step 1: parse as a refresh token
RT_Parse(p, tok) ==
    /\ tp[p].pc = "idle"
    /\ reqs < lim.reqs
    /\ reqs' = reqs + 1
    /\ LET r == ParseToken(tok, TokenTypeRefresh, now)
           h == Examine([TIdle EXCEPT !.op = "refresh", !.jti = tok.jti,
                              !.prior = tok \in issued /\ Count(rotations, tok.jti) > 0,
                              !.valid = ValidRefresh(tok)], tok, TokenTypeRefresh) IN
       tp' = [tp EXCEPT ![p] =
                IF r # "ok"
                THEN [h EXCEPT !.pc = "done", !.res = "TokenInvalid"]
                ELSE [h EXCEPT !.pc = "rt_check", !.uid = tok.uid]]
    /\ UNCHANGED <<now, ticks, faults, cache, mgr, authOn, nextJti, issued,
                   rotations, revoked>>
    /\ UNCHANGED <<lim, smsVars>>

\* step 2: the revocation check
RT_Check(p, ok) ==
    /\ tp[p].pc = "rt_check"
    /\ Fail(ok)
    /\ LET r == IsTokenBlacklisted(cache, tp[p].jti, now, ~ok) IN
       tp' = [tp EXCEPT ![p] =
                IF r.err
                THEN [@ EXCEPT !.pc = "done", !.res = "CacheError",
                               !.checkErr = ~ok, !.faulted = ~ok]
                ELSE IF r.blacklisted
                THEN [@ EXCEPT !.pc = "done", !.res = "TokenInvalid",
                               !.checkErr = ~ok, !.faulted = ~ok]
                ELSE [@ EXCEPT !.pc = "rt_user",
                               !.checkErr = ~ok, !.faulted = ~ok]]
    /\ UNCHANGED <<now, ticks, cache, mgr, authOn, nextJti, issued, rotations, revoked, reqs>>
    /\ UNCHANGED <<lim, smsVars>>

\* step 3: userRepo.FindByUserID; any error is reported as UserNotFound
RT_User(p, found) ==
    /\ tp[p].pc = "rt_user"
    /\ tp' = [tp EXCEPT ![p] =
                IF found THEN [@ EXCEPT !.pc = "rt_revoke", !.userOK = TRUE]
                ELSE [@ EXCEPT !.pc = "done", !.res = "UserNotFound"]]
    /\ UNCHANGED <<now, ticks, faults, cache, mgr, authOn, nextJti, issued,
                   rotations, revoked, reqs>>
    /\ UNCHANGED <<lim, smsVars>>

\* step 4: blacklist the old refresh token id
RT_Revoke(p, ok) ==
    /\ tp[p].pc = "rt_revoke"
    /\ Fail(ok)
    /\ IF ok
       THEN /\ cache' = RevokeRefreshToken(cache, mgr, tp[p].jti, now)
            /\ revoked' = revoked \cup {tp[p].jti}
            /\ tp' = [tp EXCEPT ![p] =
                        [@ EXCEPT !.pc = "rt_mint", !.wrote = TRUE,
                                  !.blExp = BlacklistExpiryIn(
                                      RevokeRefreshToken(cache, mgr, tp[p].jti, now),
                                      tp[p].jti)]]
       ELSE /\ tp' = [tp EXCEPT ![p] =
                        [@ EXCEPT !.pc = "done", !.res = "CacheError",
                                  !.revErr = TRUE, !.faulted = TRUE]]
            /\ UNCHANGED <<cache, revoked>>
    /\ UNCHANGED <<now, ticks, mgr, authOn, nextJti, issued, rotations, reqs>>
    /\ UNCHANGED <<lim, smsVars>>

\* step 5: mint the new pair
RT_Mint(p) ==
    /\ tp[p].pc = "rt_mint"
    /\ issued' = issued \cup
          { GenerateTokenPair(mgr, tp[p].uid, nextJti, now).access,
            GenerateTokenPair(mgr, tp[p].uid, nextJti, now).refresh }
    /\ nextJti' = nextJti + 2
    /\ rotations' = (tp[p].jti :> (Count(rotations, tp[p].jti) + 1)) @@ rotations
    /\ tp' = [tp EXCEPT ![p] =
                [@ EXCEPT !.pc = "done", !.res = "OK", !.minted = TRUE,
                          !.blAtMint = Live(cache, BlacklistKey(tp[p].jti), now)]]
    /\ UNCHANGED <<now, ticks, faults, cache, mgr, authOn, revoked, reqs>>
    /\ UNCHANGED <<lim, smsVars>>

NoCookie == [alg |-> "", key |-> "", uid |-> "", typ |-> "", jti |-> "", iat |-> 0, exp |-> 0]

\* AuthMiddleware.Handle up to the blacklist lookup: disabled middleware and
\* public paths pass, a missing cookie or a token that does not parse as an
\* access token is rejected
AM_Handle(p, tok, public) ==
    /\ tp[p].pc = "idle"
    /\ reqs < lim.reqs
    /\ reqs' = reqs + 1
    /\ LET h == [TIdle EXCEPT !.op = "auth", !.guarded = authOn /\ ~public,
                                 !.revokedBefore = tok.jti \in revoked]
       IN  tp' = [tp EXCEPT ![p] =
                IF ~authOn \/ public
                THEN [h EXCEPT !.pc = "done", !.res = "Next"]
                ELSE IF tok = NoCookie
                THEN [h EXCEPT !.pc = "done", !.res = "Unauthorized"]
                ELSE IF ParseToken(tok, TokenTypeAccess, now) # "ok"
                THEN Examine([h EXCEPT !.pc = "done", !.res = "TokenInvalid"],
                             tok, TokenTypeAccess)
                ELSE Examine([h EXCEPT !.pc = "am_check", !.jti = tok.jti, !.uid = tok.uid],
                             tok, TokenTypeAccess)]
    /\ UNCHANGED <<now, ticks, faults, cache, mgr, authOn, nextJti, issued,
                   rotations, revoked>>
    /\ UNCHANGED <<lim, smsVars>>

\* AuthMiddleware.Handle: the blacklist lookup and its three outcomes
AM_Check(p, ok) ==
    /\ tp[p].pc = "am_check"
    /\ Fail(ok)
    /\ LET r == IsTokenBlacklisted(cache, tp[p].jti, now, ~ok) IN
       tp' = [tp EXCEPT ![p] =
                IF r.err
                THEN [@ EXCEPT !.pc = "done", !.res = "CacheError",
                               !.checkErr = ~ok, !.faulted = ~ok]
                ELSE IF r.blacklisted
                THEN [@ EXCEPT !.pc = "done", !.res = "TokenInvalid",
                               !.checkErr = ~ok, !.faulted = ~ok]
                ELSE [@ EXCEPT !.pc = "done", !.res = "Next",
                               !.checkErr = ~ok, !.faulted = ~ok]]
    /\ UNCHANGED <<now, ticks, cache, mgr, authOn, nextJti, issued, rotations, revoked, reqs>>
    /\ UNCHANGED <<lim, smsVars>>

\* variant: the error of a revocation is returned to the caller
RecordError_Returned(h, failed, next, r) ==
    IF failed THEN [h EXCEPT !.pc = "done", !.res = "CacheError", !.faulted = TRUE]
    ELSE [h EXCEPT !.pc = next, !.res = r]

\* service.Logout: the error of a revocation is recorded on the span and the
\* call goes on to its next step, or returns r
RecordError(h, failed, next, r) ==
    [h EXCEPT !.pc = next, !.res = r, !.faulted = @ \/ failed]

\* Handler.Logout: each cookie that parses as its kind yields an id, else ""
LO_Parse(p, atok, rtok) ==
    /\ tp[p].pc = "idle"
    /\ reqs < lim.reqs
    /\ reqs' = reqs + 1
    /\ tp' = [tp EXCEPT ![p] =
                [TIdle EXCEPT !.op = "logout", !.pc = "lo_access",
                    !.jti = IF atok # NoCookie /\ ParseToken(atok, TokenTypeAccess, now) = "ok"
                            THEN atok.jti ELSE "",
                    !.jti2 = IF rtok # NoCookie /\ ParseToken(rtok, TokenTypeRefresh, now) = "ok"
                             THEN rtok.jti ELSE ""]]
    /\ UNCHANGED <<now, ticks, faults, cache, mgr, authOn, nextJti, issued,
                   rotations, revoked>>
    /\ UNCHANGED <<lim, smsVars>>

\* service.Logout: blacklist the access id for the access lifetime; an error is
\* recorded on the span and otherwise ignored
LO_Access(p, ok) ==
    /\ tp[p].pc = "lo_access"
    /\ IF tp[p].jti = ""
       THEN ok /\ UNCHANGED <<faults, cache, revoked>>
       ELSE /\ Fail(ok)
            /\ IF ok
               THEN /\ cache' = AddTokenToBlacklist(cache, tp[p].jti, mgr.accessExpire, now)
                    /\ revoked' = revoked \cup {tp[p].jti}
               ELSE UNCHANGED <<cache, revoked>>
    /\ tp' = [tp EXCEPT ![p] = RecordError(@, ~ok, "lo_refresh", None)]
    /\ UNCHANGED <<now, ticks, mgr, authOn, nextJti, issued, rotations, reqs>>
    /\ UNCHANGED <<lim, smsVars>>

\* service.Logout: blacklist the refresh id; errors ignored; always returns nil
LO_Refresh(p, ok) ==
    /\ tp[p].pc = "lo_refresh"
    /\ IF tp[p].jti2 = ""
       THEN ok /\ UNCHANGED <<faults, cache, revoked>>
       ELSE /\ Fail(ok)
            /\ IF ok
               THEN /\ cache' = RevokeRefreshToken(cache, mgr, tp[p].jti2, now)
                    /\ revoked' = revoked \cup {tp[p].jti2}
               ELSE UNCHANGED <<cache, revoked>>
    /\ tp' = [tp EXCEPT ![p] = RecordError(@, ~ok, "done", "OK")]
    /\ UNCHANGED <<now, ticks, mgr, authOn, nextJti, issued, rotations, reqs>>
    /\ UNCHANGED <<lim, smsVars>>

\* the response has been written; the worker takes the next request
T_Return(p) ==
    /\ tp[p].pc = "done"
    /\ tp' = [tp EXCEPT ![p] = TIdle]
    /\ UNCHANGED <<now, ticks, faults, cache, mgr, authOn, nextJti, issued,
                   rotations, revoked, reqs>>
    /\ UNCHANGED <<lim, smsVars>>

TokenTickSteps == {mgr.accessExpire, mgr.refreshExpire}

\* the clock advances between requests; expired keys disappear
Tick(d) ==
    /\ ticks < lim.ticks
    /\ \A p \in TProcs : tp[p].pc = "idle"
    /\ \A p \in SProcs : sp[p].pc \in {"idle", "done"}
    /\ now' = now + d
    /\ ticks' = ticks + 1
    /\ cache' = Purge(cache, now + d)
    /\ sendLog' = [k \in DOMAIN sendLog |-> Recent(sendLog[k], now + d, 24 * 3600)]
    /\ twin' = [twin EXCEPT !.a = Purge(@, now + d), !.b = Purge(@, now + d)]
    /\ UNCHANGED <<faults, reqs, lim, tokenVars, sp, origin, streak, cleared, v2>>

TokenNext ==
    \/ \E u \in Users : IssuePair(u)
    \/ \E p \in TProcs, tok \in Presentable : RT_Parse(p, tok)
    \/ \E p \in TProcs, ok \in BOOLEAN : RT_Check(p, ok)
    \/ \E p \in TProcs, found \in BOOLEAN : RT_User(p, found)
    \/ \E p \in TProcs, ok \in BOOLEAN : RT_Revoke(p, ok)
    \/ \E p \in TProcs : RT_Mint(p)
    \/ \E p \in TProcs, tok \in Presentable \cup {NoCookie}, public \in BOOLEAN :
          AM_Handle(p, tok, public)
    \/ \E p \in TProcs, ok \in BOOLEAN : AM_Check(p, ok)
    \/ \E p \in TProcs, atok, rtok \in issued \cup {NoCookie} : LO_Parse(p, atok, rtok)
    \/ \E p \in TProcs, ok \in BOOLEAN : LO_Access(p, ok)
    \/ \E p \in TProcs, ok \in BOOLEAN : LO_Refresh(p, ok)
    \/ \E p \in TProcs : T_Return(p)
    \/ \E d \in TokenTickSteps : Tick(d)

SpecToken == Init /\ [][TokenNext]_vars

----------------------------------------------------------------------------
(* Client.Send and Client.Verify, one Redis or gateway call per step *)

SBusy(p, at) == p \in lim.procs /\ sp[p].pc = at

\* a worker takes a request when it has none or has answered its last one
SFree(p) == p \in lim.procs /\ sp[p].pc \in {"idle", "done"}

\* a run bounds the number of requests it accepts, or (lim.reqs = 0) leaves
\* that to the clock and the fault budget
Admit ==
    IF lim.reqs = 0 THEN UNCHANGED reqs
    ELSE reqs < lim.reqs /\ reqs' = reqs + 1

\* an id for a Send request that stores a code, distinct from the ids that
\* the stored codes and the requests in flight still refer to
FreshSid ==
    CHOOSE i \in 1..8 :
        /\ \A k \in SMSKeys : origin[k].sid # i
        /\ \A q \in SProcs : sp[q].sid # i /\ sp[q].gOrigin # i

SDone(p, r) == [sp EXCEPT ![p].pc = "done", ![p].res = r]

\* variant: the error of a side action is returned to the caller
BestEffort_Returned(p, failed, next, r) ==
    IF failed THEN [sp EXCEPT ![p].pc = "done", ![p].res = "CacheError"]
    ELSE [sp EXCEPT ![p].pc = next, ![p].res = r]

\* a side action whose error is only logged: the call goes on to its next
\* step, or returns r, whether or not the action failed
BestEffort(p, failed, next, r) == [sp EXCEPT ![p].pc = next, ![p].res = r]

\* Send: template lookup, then the first read of GetSendCount (minute counter)
S_Begin(p, typ, phone, ok) ==
    /\ SFree(p)
    /\ Admit
    /\ LET k == <<typ, phone>>
           w == [SIdle EXCEPT !.op = "send", !.typ = typ, !.phone = phone, !.t0 = now,
                   !.recent = k \in SMSKeys /\ Recent(sendLog[k], now, 60) # << >>,
                   !.dayN = IF k \in SMSKeys THEN Len(Recent(sendLog[k], now, 24 * 3600)) ELSE 0]
           r == GetMinuteCount(cache, typ, phone, now, ~ok)
       IN  IF typ \notin Templates
           THEN /\ ok
                /\ sp' = [sp EXCEPT ![p] = [w EXCEPT !.pc = "done", !.res = "TemplateNotFound"]]
                /\ UNCHANGED faults
           ELSE /\ Fail(ok)
                /\ sp' = [sp EXCEPT ![p] =
                            IF r.err THEN [w EXCEPT !.pc = "done", !.res = "CacheError"]
                            ELSE [w EXCEPT !.pc = "getday", !.minute = r.n]]
    /\ UNCHANGED <<now, ticks, cache, lim, tokenVars, origin, sendLog, streak, cleared>>
    /\ UNCHANGED <<twin, v2>>

\* Send: the second read of GetSendCount (day counter), then the two limits
S_GetDay(p, ok) ==
    /\ SBusy(p, "getday")
    /\ Fail(ok)
    /\ LET r == GetDayCount(cache, sp[p].typ, sp[p].phone, now, ~ok)
           verdict == checkSendLimit(sp[p].minute, r.n)
       IN  sp' = IF r.err THEN SDone(p, "CacheError")
                 ELSE IF verdict # "" THEN SDone(p, verdict)
                 ELSE [sp EXCEPT ![p].pc = "store"]
    /\ UNCHANGED <<now, ticks, cache, reqs, lim, tokenVars, origin, sendLog, streak, cleared>>
    /\ UNCHANGED <<twin, v2>>

\* Send: generateCode, StoreCode with codeTTL
S_Store(p, n, ok) ==
    /\ SBusy(p, "store")
    /\ Fail(ok)
    /\ LET code == generateCode(n)
           k == <<sp[p].typ, sp[p].phone>>
       IN  IF ok
           THEN /\ cache' = StoreCode(cache, sp[p].typ, sp[p].phone, code, codeTTL, now)
                /\ sp' = [sp EXCEPT ![p].pc = "gateway", ![p].code = code, ![p].sid = FreshSid]
                /\ origin' = [origin EXCEPT ![k] = [sid |-> FreshSid, code |-> code,
                                                    st |-> "pending", verified |-> FALSE]]
           ELSE /\ sp' = SDone(p, "CacheError")
                /\ UNCHANGED <<cache, origin>>
    /\ UNCHANGED <<now, ticks, reqs, lim, tokenVars, sendLog, streak, cleared>>
    /\ UNCHANGED <<twin, v2>>

\* Send: sendSMS through the gateway
S_Gateway(p, delivered) ==
    /\ SBusy(p, "gateway")
    /\ sp' = [sp EXCEPT ![p].pc = IF delivered THEN "incr" ELSE "cleanup"]
    /\ LET k == <<sp[p].typ, sp[p].phone>> IN
         origin' = IF origin[k].sid # sp[p].sid THEN origin
                   ELSE [origin EXCEPT ![k].st = IF delivered THEN "delivered" ELSE "failed"]
    /\ UNCHANGED <<now, ticks, faults, cache, reqs, lim, tokenVars, sendLog, streak, cleared>>
    /\ UNCHANGED <<twin, v2>>

\* Send: the gateway failed; DeleteCode, its error only logged
S_Cleanup(p, ok) ==
    /\ SBusy(p, "cleanup")
    /\ Fail(ok)
    /\ cache' = IF ok THEN DeleteCode(cache, sp[p].typ, sp[p].phone) ELSE cache
    /\ sp' = BestEffort(p, ~ok, "done", "SendFailed")
    /\ UNCHANGED <<now, ticks, reqs, lim, tokenVars, origin, sendLog, streak, cleared>>
    /\ UNCHANGED <<twin, v2>>

\* Send: IncrSendCount, its error only logged
S_Incr(p, applied) ==
    /\ SBusy(p, "incr")
    /\ Fail(applied = 4)
    /\ cache' = IncrSendCount(cache, sp[p].typ, sp[p].phone, now, applied)
    /\ sp' = BestEffort(p, applied # 4, "reset", "none")
    /\ UNCHANGED <<now, ticks, reqs, lim, tokenVars, origin, sendLog, streak, cleared>>
    /\ UNCHANGED <<twin, v2>>

\* Send: ResetVerifyFailCount, its error only logged; Send returns nil
S_Reset(p, ok) ==
    /\ SBusy(p, "reset")
    /\ Fail(ok)
    /\ cache' = IF ok THEN ResetVerifyFailCount(cache, sp[p].typ, sp[p].phone) ELSE cache
    /\ sp' = BestEffort(p, ~ok, "done", "OK")
    /\ LET k == <<sp[p].typ, sp[p].phone>> IN
         /\ sendLog' = [sendLog EXCEPT ![k] = IF Len(@) < 7 THEN Append(@, now) ELSE Append(Tail(@), now)]
         /\ cleared' = [cleared EXCEPT ![k] = IF streak[k].hit THEN "unlocked" ELSE "fresh"]
         /\ streak' = [streak EXCEPT ![k] = NoStreak]
    /\ UNCHANGED <<now, ticks, reqs, lim, tokenVars, origin>>
    /\ UNCHANGED <<twin, v2>>

\* Verify: GetVerifyFailCount and the lockout threshold
V_Begin(p, typ, phone, cand, ok) ==
    /\ SFree(p)
    /\ Admit
    /\ Fail(ok)
    /\ LET k == <<typ, phone>>
           live == StoredCodeIn(cache, typ, phone, now)
           w == [SIdle EXCEPT !.op = "verify", !.typ = typ, !.phone = phone, !.cand = cand,
                   !.t0 = now, !.failErr = ~ok,
                   !.gFail = StoredFailsIn(cache, typ, phone, now),
                   !.live0 = live,
                   !.usedBefore = origin[k].verified /\ origin[k].code = cand,
                   !.streak0 = streak[k],
                   !.cleared0 = cleared[k]]
           r == GetVerifyFailCount(cache, typ, phone, now, ~ok)
       IN  /\ sp' = [sp EXCEPT ![p] =
                       IF r.err THEN [w EXCEPT !.pc = "done", !.res = "CacheError"]
                       ELSE IF r.n >= maxVerifyFails
                            THEN [w EXCEPT !.pc = "done", !.res = "VerifyTooMany"]
                       ELSE [w EXCEPT !.pc = "getcode"]]
           /\ streak' = [streak EXCEPT ![k] =
                           IF @.n >= 5 THEN [@ EXCEPT !.hit = @ \/ (live # None /\ cand = live)]
                           ELSE IF live # None /\ cand # live
                                THEN [n |-> @.n + 1, at |-> now, hit |-> FALSE]
                           ELSE NoStreak]
           /\ cleared' = [cleared EXCEPT ![k] = "no"]
    /\ UNCHANGED <<now, ticks, cache, lim, tokenVars, origin, sendLog>>
    /\ UNCHANGED <<twin, v2>>

\* Verify: GetCode and the comparison with the candidate
V_GetCode(p, ok) ==
    /\ SBusy(p, "getcode")
    /\ Fail(ok)
    /\ LET k == <<sp[p].typ, sp[p].phone>>
           truth == StoredCodeIn(cache, sp[p].typ, sp[p].phone, now)
           r == GetCode(cache, sp[p].typ, sp[p].phone, now, ~ok)
           w == [sp[p] EXCEPT !.gCode = truth,
                              !.gOrigin = IF truth = None THEN 0 ELSE origin[k].sid]
       IN  sp' = [sp EXCEPT ![p] =
                    IF r.err # "" THEN [w EXCEPT !.pc = "done", !.res = "CodeInvalid"]
                    ELSE IF r.code # sp[p].cand THEN [w EXCEPT !.pc = "vincr"]
                    ELSE [w EXCEPT !.pc = "vdel"]]
    /\ UNCHANGED <<now, ticks, cache, reqs, lim, tokenVars, origin, sendLog, streak, cleared>>
    /\ UNCHANGED <<twin, v2>>

\* Verify: mismatch; IncrVerifyFailCount, its error only logged
V_Incr(p, applied) ==
    /\ SBusy(p, "vincr")
    /\ Fail(applied = 2)
    /\ cache' = IncrVerifyFailCount(cache, sp[p].typ, sp[p].phone, now, applied)
    /\ sp' = BestEffort(p, applied # 2, "done", "CodeInvalid")
    /\ UNCHANGED <<now, ticks, reqs, lim, tokenVars, origin, sendLog, streak, cleared>>
    /\ UNCHANGED <<twin, v2>>

\* Verify: match; DeleteCode, its error only logged
V_Del(p, ok) ==
    /\ SBusy(p, "vdel")
    /\ Fail(ok)
    /\ cache' = IF ok THEN DeleteCode(cache, sp[p].typ, sp[p].phone) ELSE cache
    /\ sp' = BestEffort(p, ~ok, "vreset", "none")
    /\ UNCHANGED <<now, ticks, reqs, lim, tokenVars, origin, sendLog, streak, cleared>>
    /\ UNCHANGED <<twin, v2>>

\* Verify: ResetVerifyFailCount, its error only logged; Verify returns nil
V_Reset(p, ok) ==
    /\ SBusy(p, "vreset")
    /\ Fail(ok)
    /\ cache' = IF ok THEN ResetVerifyFailCount(cache, sp[p].typ, sp[p].phone) ELSE cache
    /\ sp' = BestEffort(p, ~ok, "done", "OK")
    /\ LET k == <<sp[p].typ, sp[p].phone>> IN
         origin' = IF sp[p].gOrigin = 0 \/ origin[k].sid # sp[p].gOrigin THEN origin
                   ELSE [origin EXCEPT ![k].verified = TRUE]
    /\ UNCHANGED <<now, ticks, reqs, lim, tokenVars, sendLog, streak, cleared>>
    /\ UNCHANGED <<twin, v2>>

SMSNext ==
    \/ \E p \in SProcs, typ \in lim.types, ok \in BOOLEAN : S_Begin(p, typ, "13800000000", ok)
    \/ \E p \in SProcs, ok \in BOOLEAN : S_GetDay(p, ok)
    \/ \E p \in SProcs, n \in lim.codes, ok \in BOOLEAN : S_Store(p, n, ok)
    \/ \E p \in SProcs, delivered \in BOOLEAN : S_Gateway(p, delivered)
    \/ \E p \in SProcs, ok \in BOOLEAN : S_Cleanup(p, ok)
    \/ \E p \in SProcs, applied \in 0..4 : S_Incr(p, applied)
    \/ \E p \in SProcs, ok \in BOOLEAN : S_Reset(p, ok)
    \/ \E p \in SProcs, typ \in lim.vtypes, cand \in Candidates, ok \in BOOLEAN :
          V_Begin(p, typ, "13800000000", cand, ok)
    \/ \E p \in SProcs, ok \in BOOLEAN : V_GetCode(p, ok)
    \/ \E p \in SProcs, applied \in 0..2 : V_Incr(p, applied)
    \/ \E p \in SProcs, ok \in BOOLEAN : V_Del(p, ok)
    \/ \E p \in SProcs, ok \in BOOLEAN : V_Reset(p, ok)
    \/ \E d \in lim.steps : Tick(d)

\* the SMS endpoints, two requests at a time, both purposes
InitSMS ==
    /\ InitCommon
    /\ authOn = TRUE
    /\ twin = NoTwin
    /\ v2 = NoV2
    /\ lim = [procs |-> SProcs, reqs |-> SMSReqs, ticks |-> SMSTicks, faults |-> SMSFaults,
              types |-> {"login", "register"}, vtypes |-> {"login", "register"},
              codes |-> {482913}, steps |-> {codeTTL}]

SpecSMS == InitSMS /\ [][SMSNext]_vars

\* Send and Verify for one purpose, one request after the other
InitVerifySeq ==
    /\ InitCommon
    /\ authOn = TRUE
    /\ twin = NoTwin
    /\ v2 = NoV2
    /\ lim = [procs |-> {"s1"}, reqs |-> 0, ticks |-> SeqTicks, faults |-> SeqFaults,
              types |-> {"login"}, vtypes |-> {"login", "register"},
              codes |-> {482913}, steps |-> {MinuteTTL, verifyFailTTL}]

SpecVerifySeq == InitVerifySeq /\ [][SMSNext]_vars

SendNext ==
    \/ \E p \in SProcs, typ \in lim.types, ok \in BOOLEAN : S_Begin(p, typ, "13800000000", ok)
    \/ \E p \in SProcs, ok \in BOOLEAN : S_GetDay(p, ok)
    \/ \E p \in SProcs, n \in lim.codes, ok \in BOOLEAN : S_Store(p, n, ok)
    \/ \E p \in SProcs, delivered \in BOOLEAN : S_Gateway(p, delivered)
    \/ \E p \in SProcs, ok \in BOOLEAN : S_Cleanup(p, ok)
    \/ \E p \in SProcs, applied \in 0..4 : S_Incr(p, applied)
    \/ \E p \in SProcs, ok \in BOOLEAN : S_Reset(p, ok)
    \/ \E d \in lim.steps : Tick(d)

\* Send alone, one request after the other, over a day
InitSendSeq ==
    /\ InitCommon
    /\ authOn = TRUE
    /\ twin = NoTwin
    /\ v2 = NoV2
    /\ lim = [procs |-> {"s1"}, reqs |-> 0, ticks |-> DayTicks, faults |-> DayFaults,
              types |-> {"login", "bind"}, vtypes |-> {},
              codes |-> {482913}, steps |-> {30, MinuteTTL}]

SpecSendSeq == InitSendSeq /\ [][SendNext]_vars

\* Send alone, two requests at a time
InitSendPair ==
    /\ InitCommon
    /\ authOn = TRUE
    /\ twin = NoTwin
    /\ v2 = NoV2
    /\ lim = [procs |-> SProcs, reqs |-> PairReqs, ticks |-> PairTicks, faults |-> PairFaults,
              types |-> {"login"}, vtypes |-> {},
              codes |-> {482913}, steps |-> {MinuteTTL}]

SpecSendPair == InitSendPair /\ [][SendNext]_vars

\* the cache after a successful Send for login and four Verify calls with a
\* wrong candidate, one after the other at time 0
AfterFourMisses ==
    LET sent == SendCall(<< >>, "login", "13800000000", 482913, TRUE, 0).cache
        Miss(c) == VerifyCall(c, "login", "13800000000", generateCode(0), 0).cache
    IN  Miss(Miss(Miss(Miss(sent))))

\* Send and Verify for one purpose, two requests at a time, with a working
\* cache, starting after a Send and four failed Verify calls
InitVerifyPair ==
    /\ now = 0
    /\ ticks = 0
    /\ faults = 0
    /\ reqs = 0
    /\ cache = AfterFourMisses
    /\ mgr \in { NewManager(InitJWT(cfg)) : cfg \in JWTConfigs }
    /\ nextJti = 1
    /\ issued = {}
    /\ tp = [p \in TProcs |-> TIdle]
    /\ rotations = << >>
    /\ revoked = {}
    /\ sp = [p \in SProcs |-> SIdle]
    /\ origin = [k \in SMSKeys |->
                   IF k[1] = "login"
                   THEN [sid |-> 1, code |-> generateCode(482913), st |-> "delivered",
                         verified |-> FALSE]
                   ELSE NoOrigin]
    /\ sendLog = [k \in SMSKeys |-> IF k[1] = "login" THEN <<0>> ELSE << >>]
    /\ streak = [k \in SMSKeys |->
                   IF k[1] = "login" THEN [n |-> 4, at |-> 0, hit |-> FALSE] ELSE NoStreak]
    /\ cleared = [k \in SMSKeys |-> "no"]
    /\ authOn = TRUE
    /\ twin = NoTwin
    /\ v2 = NoV2
    /\ lim = [procs |-> SProcs, reqs |-> RaceReqs, ticks |-> RaceTicks, faults |-> 0,
              types |-> {"login"}, vtypes |-> {"login"},
              codes |-> {482913}, steps |-> {MinuteTTL}]

SpecVerifyPair == InitVerifyPair /\ [][SMSNext]_vars

----------------------------------------------------------------------------
(* Two runs side by side: no code stored, and a code stored by a Send *)

\* candidates that are not the stored code
WrongNumbers == {0, 1}

\* the same Verify, with a candidate that is not the stored code, in both runs
TwinVerify(n) ==
    /\ Len(twin.tried) < TwinCalls
    /\ LET cand == generateCode(n)
           ra == VerifyCall(twin.a, "login", "13800000000", cand, now)
           rb == VerifyCall(twin.b, "login", "13800000000", cand, now)
       IN  twin' = [a |-> ra.cache, b |-> rb.cache,
                    tried |-> Append(twin.tried, cand),
                    outA |-> Append(twin.outA, ra.res),
                    outB |-> Append(twin.outB, rb.res)]
    /\ UNCHANGED <<now, ticks, faults, cache, reqs, lim, tokenVars,
                   sp, origin, sendLog, streak, cleared, v2>>

TwinNext ==
    \/ \E n \in WrongNumbers : TwinVerify(n)
    \/ \E d \in lim.steps : Tick(d)

\* run a starts with an empty cache, run b after a successful Send
InitTwin ==
    /\ InitCommon
    /\ authOn = TRUE
    /\ twin = [NoTwin EXCEPT
                 !.b = SendCall(<< >>, "login", "13800000000", 482913, TRUE, 0).cache]
    /\ v2 = NoV2
    /\ lim = [procs |-> {}, reqs |-> 0, ticks |-> TwinTicks, faults |-> 0,
              types |-> {}, vtypes |-> {}, codes |-> {}, steps |-> {codeTTL, verifyFailTTL}]

SpecTwin == InitTwin /\ [][TwinNext]_vars

----------------------------------------------------------------------------
(* SMSLogin: Verify, then the user, then the token pair *)

SMSTypeLogin == "login"

\* SendSMSCode for a purpose, one caller, working cache
SL_Send(typ, phone, n, delivered) ==
    /\ reqs < lim.reqs
    /\ reqs' = reqs + 1
    /\ LET r == SendCall(cache, typ, phone, n, delivered, now) IN
         /\ cache' = r.cache
         /\ origin' = IF r.res \notin {"OK", "SendFailed"} THEN origin
                       ELSE [origin EXCEPT ![<<typ, phone>>] =
                               [sid |-> 1, code |-> generateCode(n),
                                st |-> IF r.res = "OK" THEN "delivered" ELSE "failed",
                                verified |-> FALSE]]
    /\ UNCHANGED <<now, ticks, faults, lim, tokenVars, sp, sendLog, streak, cleared, twin, v2>>

\* the candidate is the code the last delivered Send for login issued to the phone,
\* and no login has used it
IssuedForLogin(phone, cand) ==
    LET o == origin[<<"login", phone>>] IN
    o.st = "delivered" /\ o.code = cand /\ ~o.verified

\* service.SMSLogin: smsClient.Verify for the purpose login; an error ends the call
SL_Verify(p, phone, cand) ==
    /\ p \in lim.procs
    /\ tp[p].pc = "idle"
    /\ reqs < lim.reqs
    /\ reqs' = reqs + 1
    /\ LET r == VerifyCall(cache, SMSTypeLogin, phone, cand, now)
           h == [TIdle EXCEPT !.op = "login", !.phone = phone, !.cand = cand,
                              !.matched = IssuedForLogin(phone, cand)]
       IN  /\ cache' = r.cache
           /\ origin' = IF r.res # "OK" THEN origin
                         ELSE [origin EXCEPT ![<<SMSTypeLogin, phone>>].verified = TRUE]
           /\ tp' = [tp EXCEPT ![p] =
                       IF r.res # "OK" THEN [h EXCEPT !.pc = "done", !.res = r.res]
                       ELSE [h EXCEPT !.pc = "sl_user"]]
    /\ UNCHANGED <<now, ticks, faults, lim, mgr, authOn, nextJti, issued, rotations,
                   revoked, sp, sendLog, streak, cleared, twin, v2>>

\* service.SMSLogin: FindByPhoneNumber, and registerUserByPhone for a new phone
SL_User(p, outcome) ==
    /\ tp[p].pc = "sl_user"
    /\ tp' = [tp EXCEPT ![p] =
                IF outcome = "found" THEN [@ EXCEPT !.pc = "sl_mint", !.uid = "u1"]
                ELSE IF outcome = "registered"
                     THEN [@ EXCEPT !.pc = "sl_mint", !.uid = "u1", !.created = TRUE]
                ELSE [@ EXCEPT !.pc = "done", !.res = "DatabaseError"]]
    /\ UNCHANGED <<now, ticks, faults, cache, reqs, lim, mgr, authOn, nextJti, issued,
                   rotations, revoked, smsVars>>

\* service.SMSLogin: GenerateTokenPair for the user, LoginResult returned
SL_Mint(p) ==
    /\ tp[p].pc = "sl_mint"
    /\ issued' = issued \cup
          { GenerateTokenPair(mgr, tp[p].uid, nextJti, now).access,
            GenerateTokenPair(mgr, tp[p].uid, nextJti, now).refresh }
    /\ nextJti' = nextJti + 2
    /\ tp' = [tp EXCEPT ![p] = [@ EXCEPT !.pc = "done", !.res = "OK", !.minted = TRUE]]
    /\ UNCHANGED <<now, ticks, faults, cache, reqs, lim, mgr, authOn, rotations,
                   revoked, smsVars>>

LoginNext ==
    \/ \E typ \in lim.types, n \in lim.codes, delivered \in BOOLEAN :
          SL_Send(typ, "13800000000", n, delivered)
    \/ \E p \in TProcs, cand \in Candidates : SL_Verify(p, "13800000000", cand)
    \/ \E p \in TProcs, outcome \in {"found", "registered", "finderr", "regerr"} :
          SL_User(p, outcome)
    \/ \E p \in TProcs : SL_Mint(p)
    \/ \E p \in TProcs : T_Return(p)
    \/ \E d \in lim.steps : Tick(d)

\* one caller, the purposes login and register, two codes
InitLogin ==
    /\ InitCommon
    /\ authOn = TRUE
    /\ twin = NoTwin
    /\ v2 = NoV2
    /\ lim = [procs |-> {"w1"}, reqs |-> LoginReqs, ticks |-> LoginTicks, faults |-> 0,
              types |-> SMSTypes, vtypes |-> {}, codes |-> CodeNumbers,
              steps |-> {MinuteTTL}]

SpecLogin == InitLogin /\ [][LoginNext]_vars

----------------------------------------------------------------------------
(* archv2: VolcengineClient and MockClient *)

\* the code Verify accepts without looking at the store
testCode == "777777"

\* the code MockClient.Send stores
mockCode == "123456"

TypeRegister == "register"
TypeLogin == "login"
TypeForget == "forget"

\* InitSMSClient: a template entry for each of the three purposes
V2Templates == {TypeLogin, TypeRegister, TypeForget}

\* the purposes that calls name: one with a template, one without
V2Types == {TypeLogin, "other"}

V2CodeNumbers == {482913, 777777}
V2Candidates == {testCode, mockCode, generateCode(482913)}

\* getRedisKey: Sprintf(format, smsType, phone) for the three purposes and
\* Sprintf(format, phone) otherwise; logicalKeyFormat has two verbs, the
\* minute and day formats have one
getRedisKey(format, phone, smsType) ==
    IF smsType \in {TypeRegister, TypeLogin, TypeForget}
    THEN IF format = "sms:logical" THEN [ns |-> format, a |-> smsType, b |-> phone]
         ELSE [ns |-> format, a |-> smsType, b |-> "%!(EXTRA string=" \o phone \o ")"]
    ELSE IF format = "sms:logical" THEN [ns |-> format, a |-> phone, b |-> "%!s(MISSING)"]
         ELSE [ns |-> format, a |-> phone, b |-> ""]

\* storeCode: SET sms:logical key, 5 minutes
storeCode(c, typ, phone, code, t) ==
    RSet(c, getRedisKey("sms:logical", phone, typ), code, 5 * 60, t)

\* recordSend: INCR and EXPIRE of the minute and the day counter in one
\* pipeline; `applied` of the four commands took effect
recordSend(c, typ, phone, t, applied) ==
    LET mk == getRedisKey("sms:minute", phone, typ)
        dk == getRedisKey("sms:day", phone, typ)
        c1 == IF applied >= 1 THEN RIncr(c, mk, t) ELSE c
        c2 == IF applied >= 2 THEN RExpire(c1, mk, 60, t) ELSE c1
        c3 == IF applied >= 3 THEN RIncr(c2, dk, t) ELSE c2
    IN  IF applied >= 4 THEN RExpire(c3, dk, 24 * 3600, t) ELSE c3

\* the code Redis holds for (typ, phone) at time t
LogicalCodeIn(c, typ, phone, t) ==
    LET k == getRedisKey("sms:logical", phone, typ) IN
    IF Live(c, k, t) THEN c[k].val ELSE None

\* VolcengineClient.Send, start to end; fault names the cache read or write
\* that fails, if any
VolcengineSend(c, typ, phone, n, fault, delivered, applied, t) ==
    LET m == RGetInt(c, getRedisKey("sms:minute", phone, typ), t, fault = "minute")
        d == RGetInt(c, getRedisKey("sms:day", phone, typ), t, fault = "day")
        stored == storeCode(c, typ, phone, generateCode(n), t)
    IN  IF m.err \notin {"", "nil"} THEN [cache |-> c, res |-> "CacheError"]
        ELSE IF m.n >= 1 THEN [cache |-> c, res |-> "TooFrequent"]
        ELSE IF d.err \notin {"", "nil"} THEN [cache |-> c, res |-> "CacheError"]
        ELSE IF d.n >= 6 THEN [cache |-> c, res |-> "DailyLimit"]
        ELSE IF fault = "store" THEN [cache |-> c, res |-> "CacheError"]
        ELSE IF typ \notin V2Templates THEN [cache |-> stored, res |-> "TemplateNotFound"]
        ELSE IF ~delivered THEN [cache |-> stored, res |-> "SendFailed"]
        ELSE [cache |-> recordSend(stored, typ, phone, t, applied), res |-> "OK"]

\* variant: no test code
VolcengineVerify_NoTestCode(c, typ, phone, code, okGet, okDel, t) ==
    LET k == getRedisKey("sms:logical", phone, typ)
        g == RGet(c, k, t, ~okGet)
    IN  IF g.err = "nil" THEN [cache |-> c, res |-> "CodeInvalid"]
        ELSE IF g.err # "" THEN [cache |-> c, res |-> "CacheError"]
        ELSE IF g.val # code THEN [cache |-> c, res |-> "CodeInvalid"]
        ELSE [cache |-> IF okDel THEN RDel(c, k) ELSE c, res |-> "OK"]

\* VolcengineClient.Verify, start to end
VolcengineVerify(c, typ, phone, code, okGet, okDel, t) ==
    LET k == getRedisKey("sms:logical", phone, typ)
        g == RGet(c, k, t, ~okGet)
    IN  IF code = testCode THEN [cache |-> c, res |-> "OK"]
        ELSE IF g.err = "nil" THEN [cache |-> c, res |-> "CodeInvalid"]
        ELSE IF g.err # "" THEN [cache |-> c, res |-> "CacheError"]
        ELSE IF g.val # code THEN [cache |-> c, res |-> "CodeInvalid"]
        ELSE [cache |-> IF okDel THEN RDel(c, k) ELSE c, res |-> "OK"]

\* the key of MockClient.codes: Sprintf("%s:%s", smsType, phone)
mockKey(typ, phone) == typ \o ":" \o phone

\* the code MockClient.codes holds for (typ, phone)
MockCodeIn(codes, typ, phone) ==
    IF mockKey(typ, phone) \in DOMAIN codes THEN codes[mockKey(typ, phone)] ELSE None

\* MockClient.Send
MockSend(m, typ, phone) ==
    IF m.sendErr THEN [codes |-> m.codes, res |-> "Injected"]
    ELSE [codes |-> (mockKey(typ, phone) :> mockCode) @@ m.codes, res |-> "OK"]

\* MockClient.Verify
MockVerify(m, typ, phone, code) ==
    LET k == mockKey(typ, phone) IN
    IF m.verifyErr THEN [codes |-> m.codes, res |-> "Injected"]
    ELSE IF code = testCode THEN [codes |-> m.codes, res |-> "OK"]
    ELSE IF k \notin DOMAIN m.codes THEN [codes |-> m.codes, res |-> "CodeInvalid"]
    ELSE IF m.codes[k] # code THEN [codes |-> m.codes, res |-> "CodeInvalid"]
    ELSE [codes |-> [x \in DOMAIN m.codes \ {k} |-> m.codes[x]], res |-> "OK"]

V2Frame == UNCHANGED <<now, ticks, lim, tokenVars, sp, origin, sendLog, streak, cleared, twin>>

V2_Send(typ, phone, n, fault, delivered, applied) ==
    /\ v2.use = "volcengine"
    /\ reqs < lim.reqs
    /\ reqs' = reqs + 1
    /\ Fail(fault = "none" /\ applied = 4)
    /\ LET r == VolcengineSend(cache, typ, phone, n, fault, delivered, applied, now) IN
         /\ cache' = r.cache
         /\ v2' = [v2 EXCEPT !.last =
                     [NoCall EXCEPT !.client = "volcengine", !.op = "send", !.typ = typ,
                                    !.phone = phone, !.code = generateCode(n), !.res = r.res,
                                    !.before = LogicalCodeIn(cache, typ, phone, now),
                                    !.after = LogicalCodeIn(r.cache, typ, phone, now),
                                    !.same = (r.cache = cache)]]
    /\ V2Frame

V2_Verify(typ, phone, code, okGet, okDel) ==
    /\ v2.use = "volcengine"
    /\ reqs < lim.reqs
    /\ reqs' = reqs + 1
    /\ Fail(okGet /\ okDel)
    /\ LET r == VolcengineVerify(cache, typ, phone, code, okGet, okDel, now) IN
         /\ cache' = r.cache
         /\ v2' = [v2 EXCEPT !.last =
                     [NoCall EXCEPT !.client = "volcengine", !.op = "verify", !.typ = typ,
                                    !.phone = phone, !.code = code, !.res = r.res,
                                    !.before = LogicalCodeIn(cache, typ, phone, now),
                                    !.after = LogicalCodeIn(r.cache, typ, phone, now),
                                    !.same = (r.cache = cache),
                                    !.delFailed = ~okDel]]
    /\ V2Frame

Mock_Send(typ, phone) ==
    /\ v2.use = "mock"
    /\ reqs < lim.reqs
    /\ reqs' = reqs + 1
    /\ LET r == MockSend(v2, typ, phone) IN
         v2' = [v2 EXCEPT !.codes = r.codes, !.last =
                  [NoCall EXCEPT !.client = "mock", !.op = "send", !.typ = typ,
                                 !.phone = phone, !.code = mockCode, !.res = r.res,
                                 !.before = MockCodeIn(v2.codes, typ, phone),
                                 !.after = MockCodeIn(r.codes, typ, phone),
                                 !.same = (r.codes = v2.codes),
                                 !.injected = v2.sendErr]]
    /\ UNCHANGED <<cache, faults>>
    /\ V2Frame

Mock_Verify(typ, phone, code) ==
    /\ v2.use = "mock"
    /\ reqs < lim.reqs
    /\ reqs' = reqs + 1
    /\ LET r == MockVerify(v2, typ, phone, code) IN
         v2' = [v2 EXCEPT !.codes = r.codes, !.last =
                  [NoCall EXCEPT !.client = "mock", !.op = "verify", !.typ = typ,
                                 !.phone = phone, !.code = code, !.res = r.res,
                                 !.before = MockCodeIn(v2.codes, typ, phone),
                                 !.after = MockCodeIn(r.codes, typ, phone),
                                 !.same = (r.codes = v2.codes),
                                 !.injected = v2.verifyErr]]
    /\ UNCHANGED <<cache, faults>>
    /\ V2Frame

\* MockClient.SetSendError
Mock_SetSendError(on) ==
    /\ v2.use = "mock"
    /\ v2.sendErr # on
    /\ v2' = [v2 EXCEPT !.sendErr = on]
    /\ UNCHANGED <<cache, faults, reqs>>
    /\ V2Frame

\* MockClient.SetVerifyError
Mock_SetVerifyError(on) ==
    /\ v2.use = "mock"
    /\ v2.verifyErr # on
    /\ v2' = [v2 EXCEPT !.verifyErr = on]
    /\ UNCHANGED <<cache, faults, reqs>>
    /\ V2Frame

\* the ways one Send can go: a cache read or write fails, the gateway fails,
\* or the pipeline of recordSend stops after `applied` commands
V2SendRuns ==
    { [fault |-> f, delivered |-> TRUE, applied |-> 4] : f \in {"minute", "day", "store"} }
    \cup { [fault |-> "none", delivered |-> FALSE, applied |-> 4] }
    \cup { [fault |-> "none", delivered |-> TRUE, applied |-> a] : a \in 0..4 }

\* the ways one Verify can go: at most one of GET and DEL fails
V2VerifyRuns ==
    { [okGet |-> TRUE, okDel |-> TRUE], [okGet |-> FALSE, okDel |-> TRUE],
      [okGet |-> TRUE, okDel |-> FALSE] }

V2Next ==
    \/ \E typ \in V2Types, n \in V2CodeNumbers, run \in V2SendRuns :
          V2_Send(typ, "13800000000", n, run.fault, run.delivered, run.applied)
    \/ \E typ \in V2Types, code \in V2Candidates, run \in V2VerifyRuns :
          V2_Verify(typ, "13800000000", code, run.okGet, run.okDel)
    \/ \E typ \in V2Types : Mock_Send(typ, "13800000000")
    \/ \E typ \in V2Types, code \in V2Candidates : Mock_Verify(typ, "13800000000", code)
    \/ \E on \in BOOLEAN : Mock_SetSendError(on)
    \/ \E on \in BOOLEAN : Mock_SetVerifyError(on)
    \/ \E d \in lim.steps : Tick(d)

\* the client the program was built with: NewClient with Redis injected, or
\* NewMockClient
InitV2 ==
    /\ InitCommon
    /\ authOn = TRUE
    /\ twin = NoTwin
    /\ v2 \in { [NoV2 EXCEPT !.use = c] : c \in {"volcengine", "mock"} }
    /\ lim = [procs |-> {}, reqs |-> V2Calls, ticks |-> V2Ticks, faults |-> V2Faults,
              types |-> {}, vtypes |-> {}, codes |-> {}, steps |-> {MinuteTTL}]

SpecV2 == InitV2 /\ [][V2Next]_vars

----------------------------------------------------------------------------
(* GenerateTokenPair under any configuration *)

\* values of jwt.access_expire and jwt.refresh_expire, in minutes (0: not set)
MintMinutes == {0, 15, 168, 1440}

MintConfigs == [AccessExpire : MintMinutes, RefreshExpire : MintMinutes]

MintNext ==
    \/ \E u \in Users : IssuePair(u)
    \/ \E d \in TokenTickSteps : Tick(d)

InitMint ==
    /\ InitBase
    /\ mgr \in { NewManager(InitJWT(cfg)) : cfg \in MintConfigs }
    /\ authOn = TRUE
    /\ twin = NoTwin
    /\ v2 = NoV2
    /\ lim = [procs |-> {}, reqs |-> MintReqs, ticks |-> MintTicks, faults |-> 0,
              types |-> {}, vtypes |-> {}, codes |-> {}, steps |-> {}]

SpecMint == InitMint /\ [][MintNext]_vars

----------------------------------------------------------------------------
(* Properties of the token lifecycle *)

RefreshDone(p) == tp[p].pc = "done" /\ tp[p].op = "refresh"

\* C1: with a working cache, a RefreshToken call that presents a refresh token
\* string for which an earlier call already returned a new pair fails with
\* TokenInvalid, and a call that presents a valid refresh token is refused
\* (other than for a missing subject) only when that id has been revoked.
C1_SecondRefreshRejected ==
    \A p \in TProcs :
        (RefreshDone(p) /\ ~tp[p].faulted) =>
            /\ (tp[p].prior => tp[p].res = "TokenInvalid")
            /\ (tp[p].valid /\ tp[p].res \notin {"OK", "UserNotFound"}
                    => tp[p].jti \in revoked)

C1_Witness ==
    \E p \in TProcs :
        /\ RefreshDone(p) /\ ~tp[p].faulted
        /\ tp[p].prior /\ tp[p].valid /\ tp[p].res = "TokenInvalid"
        /\ ticks > 0

\* C2: for one refresh token id, at most one RefreshToken call ever returns a
\* new pair, whatever the interleaving of the calls.
C2_AtMostOneRotation ==
    \A j \in DOMAIN rotations : rotations[j] <= 1

\* C3: a RefreshToken call mints a pair only after its own blacklist write for
\* the old id has been stored, and a call whose blacklist write failed has
\* returned CacheError without minting.
C3_RevokeBeforeMint ==
    \A p \in TProcs :
        /\ (tp[p].minted => tp[p].wrote /\ tp[p].blAtMint)
        /\ (tp[p].revErr =>
                tp[p].pc = "done" /\ tp[p].res = "CacheError" /\ ~tp[p].minted)

C3_Witness ==
    \E p, q \in TProcs :
        /\ tp[p].minted /\ tp[p].res = "OK"
        /\ tp[q].revErr /\ tp[q].res = "CacheError"

\* C10: a failed cache read in the revocation check ends the request with
\* CacheError: RefreshToken neither revokes nor mints, and AuthMiddleware does
\* not call the next handler.
C10_CheckErrorFailsClosed ==
    \A p \in TProcs :
        tp[p].checkErr =>
            /\ tp[p].pc = "done"
            /\ tp[p].res = "CacheError"
            /\ ~tp[p].wrote /\ ~tp[p].minted

C10_Witness ==
    \E p, q \in TProcs :
        /\ tp[p].op = "refresh" /\ tp[p].checkErr /\ tp[p].res = "CacheError"
        /\ tp[q].op = "auth" /\ tp[q].checkErr /\ tp[q].res = "CacheError"

----------------------------------------------------------------------------
(* Properties of the verification codes *)

VerifyDone(p) == sp[p].op = "verify" /\ sp[p].pc = "done"

SendDone(p) == sp[p].op = "send" /\ sp[p].pc = "done"

\* the purpose and phone number the request of worker p names
KeyOf(p) == <<sp[p].typ, sp[p].phone>>

\* C4 (as amended): Verify returns success only if the fail counter it read
\* was below 5 and the code stored for exactly that (purpose, phone) when it
\* read it existed and equalled the candidate; and when the fail counter was
\* read without error and was below 5, an absent code yields CodeInvalid.
C4_VerifyAccepts ==
    \A p \in SProcs :
        VerifyDone(p) =>
            /\ (sp[p].res = "OK" =>
                    /\ ~sp[p].failErr
                    /\ sp[p].gFail < 5
                    /\ sp[p].gCode \notin {None, "unread"}
                    /\ sp[p].gCode = sp[p].cand)
            /\ (~sp[p].failErr /\ sp[p].gFail < 5 =>
                    /\ sp[p].gCode # "unread"
                    /\ (sp[p].gCode = None => sp[p].res = "CodeInvalid"))

\* a code for login was accepted; a Verify for register, for which no code
\* exists, returned CodeInvalid
C4_Witness ==
    \E p \in SProcs :
        /\ VerifyDone(p)
        /\ sp[p].typ = "register"
        /\ sp[p].gCode = None
        /\ sp[p].res = "CodeInvalid"
        /\ origin[<<"login", sp[p].phone>>].verified

\* C4 (as stated): Verify returns success only if the fail counter was below
\* 5 and the stored code equalled the candidate, and an absent code always
\* yields CodeInvalid (required here only while no cache operation has failed).
C4_AbsentAlwaysCodeInvalid ==
    \A p \in SProcs :
        VerifyDone(p) =>
            /\ (sp[p].res = "OK" =>
                    /\ sp[p].gFail < 5
                    /\ sp[p].gCode \notin {None, "unread"}
                    /\ sp[p].gCode = sp[p].cand)
            /\ (faults = 0 /\ sp[p].live0 = None /\ sp[p].gCode \in {None, "unread"} =>
                    sp[p].res = "CodeInvalid")

C7_UndeliveredNeverVerified ==
    faults = 0 => \A k \in SMSKeys : ~(origin[k].st = "failed" /\ origin[k].verified)

----------------------------------------------------------------------------
(* Properties of ParseToken *)

\* C11: ParseToken returns claims only for a token whose signature verifies
\* under the manager's secret, that is unexpired and of the expected kind; a
\* token that is not a refresh token ends RefreshToken with TokenInvalid, and
\* a token that is not an access token ends AuthMiddleware with TokenInvalid.
C11_ParseChecksKind ==
    \A p \in TProcs :
        tp[p].examined =>
            /\ (tp[p].accepted =>
                    /\ tp[p].tokKey = Secret
                    /\ tp[p].tokLive
                    /\ tp[p].tokTyp = IF tp[p].op = "refresh" THEN "refresh" ELSE "access")
            /\ (tp[p].op = "refresh" /\ tp[p].tokTyp # "refresh" =>
                    tp[p].pc = "done" /\ tp[p].res = "TokenInvalid" /\ ~tp[p].minted)
            /\ (tp[p].op = "auth" /\ tp[p].tokTyp # "access" =>
                    tp[p].pc = "done" /\ tp[p].res = "TokenInvalid")

\* an unexpired access token, properly signed, was refused by RefreshToken
\* and an unexpired refresh token by AuthMiddleware
C11_Witness ==
    \E p, q \in TProcs :
        /\ tp[p].op = "refresh" /\ tp[p].examined /\ tp[p].tokTyp = "access"
        /\ tp[p].tokKey = Secret /\ tp[p].tokAlg = "HS256" /\ tp[p].tokLive
        /\ tp[p].res = "TokenInvalid"
        /\ tp[q].op = "auth" /\ tp[q].examined /\ tp[q].tokTyp = "refresh"
        /\ tp[q].tokKey = Secret /\ tp[q].tokAlg = "HS256" /\ tp[q].tokLive
        /\ tp[q].res = "TokenInvalid"

\* C12: ParseToken returns claims only for a token whose header algorithm is
\* HS256, the algorithm GenerateTokenPair signs with.
C12_OnlyHS256 ==
    \A p \in TProcs : (tp[p].examined /\ tp[p].accepted) => tp[p].tokAlg = "HS256"

----------------------------------------------------------------------------
(* Properties of the revocation entries *)

\* C13: the blacklist entry that RefreshToken writes for the rotated refresh
\* token expires exactly when that token expires.
C13_EntryLivesAsLongAsToken ==
    \A p \in TProcs :
        (tp[p].op = "refresh" /\ tp[p].wrote) => tp[p].blExp = tp[p].tokExp

----------------------------------------------------------------------------
(* Properties of Verify across runs *)

----------------------------------------------------------------------------
(* Properties of the fail counter *)

\* what a finished call of worker p did to the fail counter and the code of
\* its (purpose, phone), seen before the clock moves on
FailCounterFollows(p) ==
    LET fails == StoredFailsIn(cache, sp[p].typ, sp[p].phone, now)
        code == StoredCodeIn(cache, sp[p].typ, sp[p].phone, now)
    IN  /\ (VerifyDone(p) /\ sp[p].gFail < 5 /\ sp[p].live0 # None
              /\ sp[p].cand # sp[p].live0 =>
                fails = sp[p].gFail + 1 /\ code = sp[p].live0 /\ sp[p].res = "CodeInvalid")
        /\ (VerifyDone(p) /\ sp[p].gFail < 5 /\ sp[p].live0 # None
              /\ sp[p].cand = sp[p].live0 =>
                fails = 0 /\ code = None /\ sp[p].res = "OK")
        /\ (VerifyDone(p) /\ sp[p].live0 = None =>
                fails = sp[p].gFail /\ code = None)
        /\ (VerifyDone(p) /\ sp[p].gFail >= 5 =>
                fails = sp[p].gFail /\ code = sp[p].live0 /\ sp[p].res = "VerifyTooMany")
        /\ (SendDone(p) /\ sp[p].res = "OK" => fails = 0)

----------------------------------------------------------------------------
(* Properties of a rejected Send *)

\* the results of steps 1 and 2 of Send
Rejections == {"TemplateNotFound", "TooFrequent", "DailyLimit"}

\* a step of Send by worker p that belongs to the template lookup or the
\* limit check: it goes on to the second read, or ends the call rejected
CheckStep(p) ==
    /\ sp[p].pc \in {"idle", "done", "getday"}
    /\ sp'[p] # sp[p]
    /\ sp'[p].op = "send"
    /\ \/ sp'[p].pc = "getday"
       \/ sp'[p].pc = "done" /\ sp'[p].res \in Rejections

\* a rejected Send stored no code and never reached the gateway, and was
\* rejected for the reason its result names
RejectedFor(p) ==
    SendDone(p) /\ sp[p].res \in Rejections =>
        /\ sp[p].sid = 0 /\ sp[p].code = ""
        /\ sp[p].res = "TemplateNotFound" <=> sp[p].typ \notin Templates
        /\ now = sp[p].t0 =>
              /\ sp[p].res = "TooFrequent" =>
                    StoredMinuteIn(cache, sp[p].typ, sp[p].phone, now) >= 1
              /\ sp[p].res = "DailyLimit" =>
                    StoredDayIn(cache, sp[p].typ, sp[p].phone, now) >= 6

\* C16: a Send rejected in step 1 or 2 (TemplateNotFound, TooFrequent,
\* DailyLimit) leaves the stored code, both send counters and the fail counter
\* unchanged and does not invoke the gateway.
C16_RejectedSendWritesNothing ==
    /\ [][\A p \in SProcs : CheckStep(p) => cache' = cache /\ origin' = origin]_vars
    /\ [](\A p \in SProcs : RejectedFor(p))

\* a Send was rejected with TooFrequent while a code, a minute count of 1 and
\* a day count are stored
C16_Witness ==
    \E p \in SProcs :
        /\ SendDone(p) /\ sp[p].res = "TooFrequent" /\ now = sp[p].t0
        /\ StoredCodeIn(cache, sp[p].typ, sp[p].phone, now) # None
        /\ StoredMinuteIn(cache, sp[p].typ, sp[p].phone, now) = 1
        /\ StoredDayIn(cache, sp[p].typ, sp[p].phone, now) >= 1

----------------------------------------------------------------------------
(* Properties of the best-effort side actions *)

\* where a call stands after a side action, and with which result
AfterSideAction(p) ==
    /\ sp[p].pc = "incr" => sp'[p].pc = "reset"
    /\ sp[p].pc = "reset" => sp'[p].pc = "done" /\ sp'[p].res = "OK"
    /\ sp[p].pc = "cleanup" => sp'[p].pc = "done" /\ sp'[p].res = "SendFailed"
    /\ sp[p].pc = "vincr" => sp'[p].pc = "done" /\ sp'[p].res = "CodeInvalid"
    /\ sp[p].pc = "vdel" => sp'[p].pc = "vreset"
    /\ sp[p].pc = "vreset" => sp'[p].pc = "done" /\ sp'[p].res = "OK"

\* C17: the failure of a best-effort side action never changes the primary
\* result: after a delivery Send goes through its counter increment and its
\* fail-counter reset to OK, Verify on a match through its delete and reset to
\* OK, and Verify on a mismatch through its increment to CodeInvalid, whether
\* or not these cache operations fail.
C17_SideActionsOnlyLogged ==
    [][\A p \in SProcs : sp'[p] # sp[p] /\ faults' # faults => AfterSideAction(p)]_vars

\* a Send returned OK although its counter increment failed: no send count is
\* stored right after it
C17_Witness ==
    \E p \in SProcs :
        /\ SendDone(p) /\ sp[p].res = "OK" /\ now = sp[p].t0
        /\ faults = 1
        /\ StoredMinuteIn(cache, sp[p].typ, sp[p].phone, now) = 0
        /\ StoredDayIn(cache, sp[p].typ, sp[p].phone, now) = 0

----------------------------------------------------------------------------
(* Properties of Logout *)

\* the blacklist entry of id jti in cache c was written at time t for ttl
BlacklistedFor(c, jti, t, ttl) ==
    LET k == [ns |-> "token:blacklist", a |-> jti, b |-> ""] IN
    k \in DOMAIN c /\ c[k].val = "1" /\ c[k].hasTTL /\ c[k].exp = t + ttl

\* one revocation of Logout: nothing is attempted for an empty id; for another
\* id the entry is written for the lifetime ttl, or the write fails and the
\* cache stays as it was
Revocation(jti, ttl) ==
    /\ jti = "" => cache' = cache /\ faults' = faults
    /\ jti # "" /\ faults' = faults => BlacklistedFor(cache', jti, now, ttl)
    /\ jti # "" /\ faults' # faults => cache' = cache

\* C18: Logout always returns success; it attempts the revocation of each
\* non-empty id, the access id for the access lifetime and the refresh id for
\* the refresh lifetime, and the failure of one neither fails the call nor
\* keeps the other from being attempted.
C18_LogoutBestEffort ==
    [][\A p \in TProcs : tp[p].op = "logout" /\ tp'[p] # tp[p] =>
          /\ tp[p].pc = "lo_access" =>
                /\ tp'[p].pc = "lo_refresh"
                /\ Revocation(tp[p].jti, mgr.accessExpire)
          /\ tp[p].pc = "lo_refresh" =>
                /\ tp'[p].pc = "done" /\ tp'[p].res = "OK"
                /\ Revocation(tp[p].jti2, mgr.refreshExpire)]_vars

\* a Logout with both ids returned success although the revocation of the
\* access id failed, and the refresh id was revoked for the refresh lifetime
C18_Witness ==
    \E p \in TProcs :
        /\ tp[p].op = "logout" /\ tp[p].pc = "done" /\ tp[p].res = "OK"
        /\ tp[p].faulted
        /\ tp[p].jti # "" /\ tp[p].jti2 # ""
        /\ BlacklistKey(tp[p].jti) \notin DOMAIN cache
        /\ BlacklistedFor(cache, tp[p].jti2, now, mgr.refreshExpire)

----------------------------------------------------------------------------
(* Properties of concurrent Sends *)

\* workers p and q have both just finished a successful Send for the same
\* (purpose, phone)
BothSent(p, q) ==
    /\ p # q
    /\ SendDone(p) /\ sp[p].res = "OK" /\ sp[p].t0 = now
    /\ SendDone(q) /\ sp[q].res = "OK" /\ sp[q].t0 = now
    /\ KeyOf(p) = KeyOf(q)

\* C19: two concurrent Sends for the same (purpose, phone), both started while
\* the minute counter is 0, can both pass the limit check and both succeed;
\* the minute counter is then 2.
C19_BothPassCounterTwo ==
    \A p, q \in SProcs :
        BothSent(p, q) /\ faults = 0 =>
            /\ sp[p].minute = 0 /\ sp[q].minute = 0
            /\ StoredMinuteIn(cache, sp[p].typ, sp[p].phone, now) = 2

\* both Sends succeeded, each having read a minute count of 0, and the
\* minute counter is at 2
C19_Witness ==
    \E p, q \in SProcs :
        /\ BothSent(p, q) /\ faults = 0
        /\ sp[p].minute = 0 /\ sp[q].minute = 0
        /\ StoredMinuteIn(cache, sp[p].typ, sp[p].phone, now) = 2

----------------------------------------------------------------------------
(* Properties of the send counters over time *)

\* C20: each send counter is a fixed time bucket: the day counter is reset no
\* later than 24 hours after the first counted send of its bucket and the
\* minute counter no later than 60 seconds after it; a later counted send
\* does not extend a running bucket.  (sendLog holds the times of the counted
\* sends of the last 24 hours while no cache operation has failed.)
C20_FixedBuckets ==
    faults = 0 =>
        \A k \in SMSKeys :
            LET day == [ns |-> "sms:day", a |-> k[1], b |-> k[2]]
                minute == [ns |-> "sms:minute", a |-> k[1], b |-> k[2]]
            IN  sendLog[k] # << >> =>
                  /\ Live(cache, day, now) =>
                        cache[day].hasTTL /\ cache[day].exp <= Head(sendLog[k]) + 24 * 3600
                  /\ Live(cache, minute, now) /\ (\A p \in SProcs : SFree(p)) =>
                        /\ cache[minute].hasTTL
                        /\ cache[minute].exp <= sendLog[k][Len(sendLog[k])] + 60

----------------------------------------------------------------------------
(* Properties of GenerateTokenPair *)

\* the tokens a step adds to those issued so far
Minted == issued' \ issued

\* one call of GenerateTokenPair: an access-tagged and a refresh-tagged token
\* for the same subject, issued now, with two ids not seen before
MintsOnePair ==
    \E a, r \in Minted :
        /\ Minted = {a, r}
        /\ a.typ = "access" /\ r.typ = "refresh"
        /\ a.uid = r.uid /\ a.iat = now /\ r.iat = now
        /\ a.jti # r.jti
        /\ \A old \in issued : old.jti # a.jti /\ old.jti # r.jti

\* C21: GenerateTokenPair returns one access-tagged and one refresh-tagged
\* token with the same subject and issued-at and distinct ids, no id is reused
\* across calls, and the call writes nothing to the cache or the revocation
\* store.
C21_MintIsPure ==
    /\ [][issued' # issued => MintsOnePair /\ cache' = cache /\ revoked' = revoked]_vars
    /\ [](\A x, y \in issued : x.jti = y.jti => x = y)

\* two pairs have been minted while a revocation entry is in the cache
C21_Witness ==
    /\ Cardinality(issued) = 4
    /\ Cardinality({x.jti : x \in issued}) = 4
    /\ \E x \in issued : BlacklistKey(x.jti) \in DOMAIN cache

\* C22: for every Manager built by NewManager from any configuration, and
\* every pair returned by GenerateTokenPair, the access token expires strictly
\* before the refresh token.
C22_AccessExpiresFirst ==
    \A a, r \in issued :
        a.typ = "access" /\ r.typ = "refresh" /\ a.uid = r.uid /\ a.iat = r.iat =>
            a.exp < r.exp

----------------------------------------------------------------------------
(* Properties of revocation over time *)

\* C23: a revocation entry written by RefreshToken or Logout never expires
\* before the token it revokes: while a rotated or logged-out token is
\* unexpired, IsTokenBlacklisted on its id (with a working cache) returns true.
C23_RevokedStaysRevoked ==
    \A tok \in issued :
        tok.jti \in revoked /\ now < tok.exp =>
            IsTokenBlacklisted(cache, tok.jti, now, FALSE)
                = [blacklisted |-> TRUE, err |-> FALSE]

\* time has passed since a token was revoked; the token is still unexpired
C23_Witness ==
    \E tok \in issued :
        /\ tok.jti \in revoked /\ now < tok.exp
        /\ now > 0
        /\ BlacklistExpiryIn(cache, tok.jti) < now + mgr.refreshExpire

----------------------------------------------------------------------------
(* Properties of concurrent Verifies *)

\* C24: for every interleaving of concurrent Verify calls that supply the
\* correct code for the same (purpose, phone), at most one call succeeds per
\* issued code.  (Stated for runs in which no cache operation has failed.)
C24_OneSuccessPerCode ==
    faults = 0 =>
        \A p, q \in SProcs :
            /\ p # q
            /\ VerifyDone(p) /\ sp[p].res = "OK"
            /\ VerifyDone(q) /\ sp[q].res = "OK"
            /\ KeyOf(p) = KeyOf(q)
            => sp[p].gOrigin # sp[q].gOrigin

\* C25: between two successful Sends for (purpose, phone) at most 5 Verify
\* calls get to compare a wrong candidate against the stored code, under any
\* interleaving of concurrent Verify calls; equivalently the fail counter
\* never exceeds 5.  (Stated for runs in which no cache operation has failed.)
C25_FailCounterAtMostFive ==
    faults = 0 => \A k \in SMSKeys : StoredFailsIn(cache, k[1], k[2], now) <= 5

----------------------------------------------------------------------------
(* Properties of the authentication middleware *)

AuthDone(p) == tp[p].op = "auth" /\ tp[p].pc = "done"

\* the middleware lets request p through on this step
LetsThrough(p) == tp[p].pc # "done" /\ tp'[p].op = "auth" /\ tp'[p].res = "Next"

\* a request on a guarded path (authentication enabled, path not public) is
\* let through only with an unexpired access-kind token whose id is not
\* blacklisted at that moment
OnlyWithGoodToken ==
    \A p \in TProcs :
        LetsThrough(p) /\ tp'[p].guarded =>
            /\ tp'[p].examined /\ tp'[p].accepted
            /\ tp'[p].tokLive /\ tp'[p].tokTyp = "access"
            /\ ~Live(cache, [ns |-> "token:blacklist", a |-> tp'[p].jti, b |-> ""], now)

\* C26 (as stated): with authentication enabled a request to a non-public
\* path reaches the next handler only with an unexpired access-kind token
\* whose id is not blacklisted, and once Logout has revoked an access token id
\* every later request with that token is rejected with TokenInvalid.
C26_RevokedGetsTokenInvalid ==
    \A p \in TProcs :
        AuthDone(p) /\ tp[p].guarded /\ tp[p].revokedBefore => tp[p].res = "TokenInvalid"

\* C26 (as amended): the same, the request with a revoked token being
\* rejected with TokenInvalid when the blacklist lookup works and with
\* CacheError when it fails.
C26_RevokedIsRejected ==
    /\ [][OnlyWithGoodToken]_vars
    /\ [](\A p \in TProcs :
            AuthDone(p) /\ tp[p].guarded /\ tp[p].revokedBefore =>
                /\ tp[p].res \in {"TokenInvalid", "CacheError"}
                /\ tp[p].res = "CacheError" => tp[p].checkErr)

\* a request on a guarded path presented an unexpired access token that
\* Logout had revoked before, and was rejected with TokenInvalid
C26_Witness ==
    \E p \in TProcs :
        /\ AuthDone(p) /\ tp[p].guarded /\ tp[p].revokedBefore
        /\ tp[p].accepted /\ tp[p].tokLive /\ tp[p].tokTyp = "access"
        /\ ~tp[p].checkErr
        /\ tp[p].res = "TokenInvalid"

----------------------------------------------------------------------------
(* Properties of SMSLogin *)

----------------------------------------------------------------------------
(* Properties of the counters' expiry *)

\* the minute, day and fail counters that exist at time t
CounterKeysIn(c, t) ==
    { k \in DOMAIN c : k.ns \in {"sms:minute", "sms:day", "sms:verify_fail"} /\ Live(c, k, t) }

----------------------------------------------------------------------------
(* Properties of the archv2 clients *)

\* C29: in the archv2 VolcengineClient, a Send that returns an error because
\* the type has no configured template or because the gateway delivery
\* failed leaves no code stored for (type, phone) that a later Verify would
\* accept.
C29_FailedSendLeavesNoCode ==
    (/\ v2.last.client = "volcengine" /\ v2.last.op = "send"
     /\ v2.last.res \in {"TemplateNotFound", "SendFailed"})
        => v2.last.after = None

\* C30 (as amended): in archv2, Verify accepts the fixed code 777777 for any
\* (type, phone), whether or not a code was sent, unless a verify error was
\* injected into the MockClient, and doing so leaves every stored code as it
\* was; any other candidate succeeds only if it equals the stored code for
\* that (type, phone), which is then deleted unless the VolcengineClient's
\* DEL fails.
C30_TestCodeAccepted ==
    v2.last.op = "verify" =>
        /\ (v2.last.code = testCode /\ ~v2.last.injected =>
                v2.last.res = "OK" /\ v2.last.same)
        /\ (v2.last.code # testCode /\ v2.last.res = "OK" =>
                /\ v2.last.before = v2.last.code
                /\ (v2.last.after = None \/ v2.last.delFailed)
                /\ (v2.last.delFailed => v2.last.client = "volcengine"))

\* the fixed code was accepted for a purpose and phone with a stored code,
\* and the stored code is still there
C30_Witness ==
    /\ v2.last.op = "verify" /\ v2.last.code = testCode /\ v2.last.res = "OK"
    /\ v2.last.before \notin {None, testCode}
    /\ v2.last.after = v2.last.before
    /\ v2.last.same

\* C30 (as stated): Verify accepts 777777 for any (type, phone) and leaves
\* every stored code as it was; any other candidate succeeds only if it
\* equals the stored code, which is then deleted.
C30_TestCodeAlwaysAccepted ==
    v2.last.op = "verify" =>
        /\ (v2.last.code = testCode => v2.last.res = "OK" /\ v2.last.same)
        /\ (v2.last.code # testCode /\ v2.last.res = "OK" =>
                v2.last.before = v2.last.code /\ v2.last.after = None)

====
